---- MODULE Spec2Model ----
(***************************************************************************)
(* State-machine model of src/src/main.rs: the single host thread of main  *)
(* walking through device acquisition, the buffer copy, the multiply-by-12 *)
(* compute pass, the Mandelbrot pass and the triangle pass, next to the    *)
(* device that executes submitted command buffers asynchronously.          *)
(*                                                                         *)
(* Large resources (the 65536-element data buffer, the 512x512 image and   *)
(* its readback buffers) are tracked at a lattice of sample indices; small *)
(* ones are tracked in full.                                               *)
(***************************************************************************)
EXTENDS Integers, Sequences, FiniteSets, TLC

VARIABLES
    pc,           \* index into Program of the host's next step
    status,       \* "running", "done" or "aborted"
    diag,         \* the panic message of an aborted run
    exit_code,    \* process exit code (-1 while running)
    devices,      \* what PhysicalDevice::enumerate yields: a list of devices,
                  \* each a list of queue families
    physical,     \* index of the selected device, 0 before selection
    queue_family, \* index of the selected family of that device, 0 before
    objs,         \* opaque objects created so far (instance, device, ...)
    mem,          \* buffers and images, by name
    views,        \* names of the buffers whose host read view is held
    cmd,          \* the command buffer being recorded / last built
    subs,         \* every submission so far, with the device's progress
    files,        \* image files written, in order
    stdout,       \* lines printed
    pass_in       \* input of the stand-alone pass runs ("main" in a run of main)

vars == <<pc, status, diag, exit_code, devices, physical, queue_family, objs,
          mem, views, cmd, subs, files, stdout, pass_in>>

----------------------------------------------------------------------------
(* Bounds of the model *)

\* number of tracked indices per axis of a large buffer or image
Samples == 8
\* longest device list enumerated in the acquisition runs
MaxDevices == 2
\* most queue families per device in the acquisition runs
MaxFamilies == 2
\* largest buffer length of the stand-alone pass runs (besides the configured ones)
MaxLen == 3

----------------------------------------------------------------------------
(* Program constants *)

CopyLen == 64
DataLen == 65536
ImageDim == 512
Multiplier == 12
\* a u32 is kept as two 16-bit halves <<high, low>>
HalfBits == 16
PanicExitCode == 101

\* work-group size of the multiply shader (src/op.glsl, not among the sources):
\* 1024 groups cover the 65536 elements
CsLocalSize == 64
\* work-group edge of the Mandelbrot shader (src/mandelbrot.glsl): 512 / 8 groups
MandelLocalSize == 8
\* iteration cap and fixed-point scale used to evaluate the Mandelbrot shader
MandelIters == 4
MandelScale == 64

Min(S) == CHOOSE x \in S : \A y \in S : x <= y

Pow2(n) == 2 ^ n

\* the u32 that `n as u32` yields
U32(n) == <<(n \div Pow2(HalfBits)) % Pow2(HalfBits), n % Pow2(HalfBits)>>

\* wrapping product of a u32 and a small factor
U32Times(v, m) ==
    <<(v[1] * m + (v[2] * m) \div Pow2(HalfBits)) % Pow2(HalfBits),
      (v[2] * m) % Pow2(HalfBits)>>

\* The indices at which a buffer of n elements is tracked.
SampleIdx(n) ==
    IF n <= Samples THEN 0 .. (n - 1)
    ELSE {(k * n) \div Samples : k \in 0 .. (Samples - 1)} \cup {n - 1}

PixIdx == SampleIdx(ImageDim) \X SampleIdx(ImageDim)

Absent == [kind |-> "none"]

Names == {"source", "dest", "data_buffer", "image", "buf", "buf_2", "vertex_buffer"}

\* [0.0, 0.0, 0.0, 0.0] as R8G8B8A8Unorm
ClearColour == <<0, 0, 0, 0>>
\* what uninitialised image memory holds: no colour at all
UndefColour == <<-1, -1, -1, -1>>
\* output of the fragment shader (src/frag.glsl)
ShadedColour == <<255, 0, 0, 255>>

\* triangle vertices in quarters of a normalised device coordinate
VertexScale == 4
Vertices == << <<-2, -2>>, <<0, 2>>, <<2, -1>> >>

ViewportDim == 512

----------------------------------------------------------------------------
(* Resources *)

\* CpuAccessibleBuffer::from_iter(device, usage, 0..n) with u8 elements:
\* element i holds i
IotaBuffer(n) ==
    [kind |-> "buffer", len |-> n,
     data |-> [i \in SampleIdx(n) |-> i],
     hits |-> [i \in SampleIdx(n) |-> 0]]

\* the same with u32 elements
Iota32Buffer(n) ==
    [kind |-> "buffer", len |-> n,
     data |-> [i \in SampleIdx(n) |-> U32(i)],
     hits |-> [i \in SampleIdx(n) |-> 0]]

\* a u32 buffer filled from the top of the range: element i holds 2^32 - 1 - i,
\* so that every product by 12 passes 2^32
Top32Buffer(n) ==
    [kind |-> "buffer", len |-> n,
     data |-> [i \in SampleIdx(n) |->
                 <<Pow2(HalfBits) - 1 - (i \div Pow2(HalfBits)),
                   Pow2(HalfBits) - 1 - (i % Pow2(HalfBits))>>],
     hits |-> [i \in SampleIdx(n) |-> 0]]

\* CpuAccessibleBuffer::from_iter(device, usage, (0..n).map(|_| 0u8))
ZeroBuffer(n) ==
    [kind |-> "buffer", len |-> n,
     data |-> [i \in SampleIdx(n) |-> 0],
     hits |-> [i \in SampleIdx(n) |-> 0]]

\* the (0 .. 512*512*4).map(|_| 0u8) readback buffers, tracked pixel by pixel
PixelBuffer ==
    [kind |-> "buffer", len |-> ImageDim * ImageDim * 4,
     data |-> [p \in PixIdx |-> ClearColour],
     hits |-> [p \in PixIdx |-> 0]]

\* vec![v1, v2, v3]
VertexBuffer ==
    [kind |-> "buffer", len |-> Len(Vertices),
     data |-> [i \in 0 .. (Len(Vertices) - 1) |-> Vertices[i + 1]],
     hits |-> [i \in 0 .. (Len(Vertices) - 1) |-> 0]]

\* StorageImage::new: device memory that nothing has written yet
NewImage ==
    [kind |-> "image", len |-> ImageDim * ImageDim * 4,
     data |-> [p \in PixIdx |-> UndefColour],
     hits |-> [p \in PixIdx |-> 0]]

NewResource(init, n) ==
    CASE init = "iota"     -> IotaBuffer(n)
      [] init = "iota32"   -> Iota32Buffer(n)
      [] init = "top32"    -> Top32Buffer(n)
      [] init = "zero"     -> ZeroBuffer(n)
      [] init = "pixels"   -> PixelBuffer
      [] init = "vertices" -> VertexBuffer
      [] init = "image"    -> NewImage

----------------------------------------------------------------------------
(* What the device does for one recorded operation *)

Op(o, a, b, g) == [op |-> o, a |-> a, b |-> b, groups |-> g]

NoGroups == <<0, 0, 0>>

\* faulty variant of CopyBuffer: the copy stops one element short
CopyBufferShort(src, dst) ==
    LET n == (IF src.len < dst.len THEN src.len ELSE dst.len) - 1
    IN  [dst EXCEPT
          !.data = [i \in DOMAIN dst.data |->
                      IF i < n /\ i \in DOMAIN src.data THEN src.data[i] ELSE dst.data[i]],
          !.hits = [i \in DOMAIN dst.hits |->
                      IF i < n THEN dst.hits[i] + 1 ELSE dst.hits[i]]]

\* vkCmdCopyBuffer as recorded by copy_buffer(source, dest): the first
\* min(len source, len dest) elements of dest become those of source
CopyBuffer(src, dst) ==
    LET n == IF src.len < dst.len THEN src.len ELSE dst.len
    IN  [dst EXCEPT
          !.data = [i \in DOMAIN dst.data |->
                      IF i < n /\ i \in DOMAIN src.data THEN src.data[i] ELSE dst.data[i]],
          !.hits = [i \in DOMAIN dst.hits |->
                      IF i < n THEN dst.hits[i] + 1 ELSE dst.hits[i]]]

RECURSIVE TimesPow(_, _, _)
\* the u32 v multiplied k times by m
TimesPow(v, m, k) ==
    IF k = 0 THEN v ELSE TimesPow(U32Times(v, m), m, k - 1)

\* how many invocations of dispatch(groups) have gl_GlobalInvocationID.x = i
CsInvocationsOf(i, groups) ==
    IF i \div CsLocalSize < groups[1] THEN groups[2] * groups[3] ELSE 0

\* the multiply shader over the bound buffer: every invocation whose global id
\* lies inside the buffer multiplies that element by 12 (a u32 product, which
\* wraps)
DispatchMultiply(buf, groups) ==
    [buf EXCEPT
      !.data = [i \in DOMAIN buf.data |->
                  TimesPow(buf.data[i], Multiplier, CsInvocationsOf(i, groups))],
      !.hits = [i \in DOMAIN buf.hits |->
                  buf.hits[i] + CsInvocationsOf(i, groups)]]

\* The dispatch starts groups[1] * 64 invocations along x whatever the length
\* of the buffer. An invocation whose global id lies past the end of the buffer
\* accesses memory the buffer does not have. Whether the shader compares its id
\* with the length is not known, and an access past the end is not defined: it
\* is dropped, or it lands on an element of the buffer and leaves a value there
\* that is not the product.
NoEffect == [kind |-> "none"]

\* values a stray write may leave
StrayValues == {U32(0), U32(1)}

\* what the invocations past the end of buf may do to it
PastEndEffects(buf, groups) ==
    IF groups[1] * CsLocalSize > buf.len /\ groups[2] * groups[3] > 0
    THEN {NoEffect} \cup
         {[kind |-> "stray", at |-> k, val |-> v] : k \in DOMAIN buf.data, v \in StrayValues}
    ELSE {NoEffect}

\* buf after effect e
ApplyEffect(buf, e) ==
    IF e.kind = "stray"
    THEN [buf EXCEPT !.data[e.at] = e.val, !.hits[e.at] = @ + 1]
    ELSE buf

RECURSIVE MandelEscape(_, _, _, _, _)
\* number of iterations of z := z*z + c (fixed point) before |z| > 2
MandelEscape(zr, zi, cr, ci, k) ==
    IF k = MandelIters \/ zr * zr + zi * zi > 4 * MandelScale * MandelScale
    THEN k
    ELSE MandelEscape((zr * zr - zi * zi) \div MandelScale + cr,
                      (2 * zr * zi) \div MandelScale + ci, cr, ci, k + 1)

\* colour the Mandelbrot shader stores at pixel (x, y): grey level by escape
\* time, opaque
MandelbrotColour(x, y) ==
    LET cr == ((2 * x + 1) * MandelScale) \div ImageDim - 2 * MandelScale
        ci == ((2 * y + 1) * MandelScale) \div ImageDim - MandelScale
        v  == (MandelEscape(0, 0, cr, ci, 0) * 255) \div MandelIters
    IN  <<v, v, v, 255>>

DispatchMandelbrot(img, groups) ==
    LET covered(p) == /\ p[1] \div MandelLocalSize < groups[1]
                      /\ p[2] \div MandelLocalSize < groups[2]
                      /\ groups[3] >= 1
    IN  [img EXCEPT
          !.data = [p \in DOMAIN img.data |->
                      IF covered(p) THEN MandelbrotColour(p[1], p[2]) ELSE img.data[p]],
          !.hits = [p \in DOMAIN img.hits |->
                      IF covered(p) THEN img.hits[p] + 1 ELSE img.hits[p]]]

\* copy_image_to_buffer(image, buf): tightly packed rows of RGBA8 texels
CopyImageToBuffer(img, buf) ==
    [buf EXCEPT
      !.data = [p \in DOMAIN buf.data |->
                  IF p \in DOMAIN img.data THEN img.data[p] ELSE buf.data[p]],
      !.hits = [p \in DOMAIN buf.hits |-> buf.hits[p] + 1]]

\* faulty variant of LoadOp: the attachment keeps what it held
LoadOpKeep == "Load"

\* load operation of the colour attachment
LoadOp == "Clear"

\* begin_render_pass(framebuffer, false, vec![[0.0, 0.0, 0.0, 0.0].into()])
BeginRenderPass(img) ==
    IF LoadOp = "Clear"
    THEN [img EXCEPT !.data = [p \in DOMAIN img.data |-> ClearColour],
                     !.hits = [p \in DOMAIN img.hits |-> img.hits[p] + 1]]
    ELSE img

\* twice the framebuffer coordinate of vertex coordinate v under the viewport
\* origin (0, 0), dimensions (512, 512)
Window2(v) == ((v + VertexScale) * ViewportDim) \div VertexScale

Edge(a, b, p) == (b[1] - a[1]) * (p[2] - a[2]) - (b[2] - a[2]) * (p[1] - a[1])

\* whether the centre of pixel (x, y) lies inside the triangle vs (no culling)
InsideTriangle(vs, x, y) ==
    LET w(i) == <<Window2(vs[i][1]), Window2(vs[i][2])>>
        p    == <<2 * x + 1, 2 * y + 1>>
        e1   == Edge(w(0), w(1), p)
        e2   == Edge(w(1), w(2), p)
        e3   == Edge(w(2), w(0), p)
    IN  \/ (e1 > 0 /\ e2 > 0 /\ e3 > 0)
        \/ (e1 < 0 /\ e2 < 0 /\ e3 < 0)

\* draw(pipeline, &dynamic_state, vertex_buffer, (), ()): one triangle,
\* every covered pixel gets the fragment shader's colour
Draw(vb, img) ==
    [img EXCEPT
      !.data = [p \in DOMAIN img.data |->
                  IF InsideTriangle(vb.data, p[1], p[2]) THEN ShadedColour ELSE img.data[p]],
      !.hits = [p \in DOMAIN img.hits |->
                  IF InsideTriangle(vb.data, p[1], p[2]) THEN img.hits[p] + 1 ELSE img.hits[p]]]

\* memory after the device has executed operation o
ExecOp(o, m) ==
    CASE o.op = "copy_buffer" ->
           [m EXCEPT ![o.b] = CopyBuffer(m[o.a], m[o.b])]
      [] o.op = "dispatch" /\ o.a = "cs" ->
           [m EXCEPT ![o.b] = DispatchMultiply(m[o.b], o.groups)]
      [] o.op = "dispatch" /\ o.a = "mandelbrot" ->
           [m EXCEPT ![o.b] = DispatchMandelbrot(m[o.b], o.groups)]
      [] o.op = "copy_image_to_buffer" ->
           [m EXCEPT ![o.b] = CopyImageToBuffer(m[o.a], m[o.b])]
      [] o.op = "begin_render_pass" ->
           [m EXCEPT ![o.b] = BeginRenderPass(m[o.b])]
      [] o.op = "draw" ->
           [m EXCEPT ![o.b] = Draw(m[o.a], m[o.b])]
      [] o.op = "end_render_pass" -> m

\* what the accesses of operation o past the end of its resource may do: only
\* the multiply dispatch can start invocations past the end (the other
\* dispatch covers its image exactly, 64 x 64 groups of 8 x 8)
Effects(o, m) ==
    IF o.op = "dispatch" /\ o.a = "cs"
    THEN PastEndEffects(m[o.b], o.groups)
    ELSE {NoEffect}

\* memory after the device has executed operation o with effect e
ExecOpWith(o, m, e) ==
    [ExecOp(o, m) EXCEPT ![o.b] = ApplyEffect(@, e)]

\* resources an operation writes (end_render_pass stores the attachment)
Writes(o) == {o.b}

\* operation class an operation needs of the queue family it is recorded for
NeedsCompute(o) == o.op = "dispatch"
NeedsGraphics(o) == o.op \in {"begin_render_pass", "draw", "end_render_pass"}

----------------------------------------------------------------------------
(* The statements of main, in order *)

St(k, l, a, d) == [kind |-> k, line |-> l, arg |-> a, diag |-> d]

\* diag holds the fixed part of a panic message, which names the kind of
\* failure. The message on stderr goes on with what depends on the failure:
\* ": " and the Debug text of the error after an expect or unwrap of a Result,
\* the left and right values after an assert_eq. Where the library's text
\* sets a word in backquotes, the word stands here without them.
UnwrapErr == "called Result::unwrap() on an Err value"
UnwrapNone == "called Option::unwrap() on a None value"
AssertFailed == "assertion left == right failed"
PrintFailed == "failed printing to stdout"

Alloc(name, init, n) == [name |-> name, init |-> init, len |-> n]

\* the buffer the Mandelbrot pass reads back into: the first 'let buf'
MandelbrotReadback == "buf"

\* faulty variant of TriangleReadback: the first buffer is used again
TriangleReadbackReused == "buf"

\* the buffer the triangle pass reads back into: the second 'let buf'
TriangleReadback == "buf_2"

\* faulty variant of CsGroups: one work group too few
CsGroupsShort == <<1023, 1, 1>>

\* group counts of the multiply dispatch
CsGroups == <<1024, 1, 1>>

MandelbrotGroups == <<ImageDim \div MandelLocalSize, ImageDim \div MandelLocalSize, 1>>

CopyOps == << Op("copy_buffer", "source", "dest", NoGroups) >>

MultiplyOps == << Op("dispatch", "cs", "data_buffer", CsGroups) >>

\* faulty variant of MandelbrotOps: the copy recorded before the dispatch
MandelbrotOpsSwapped ==
    << Op("copy_image_to_buffer", "image", MandelbrotReadback, NoGroups),
       Op("dispatch", "mandelbrot", "image", MandelbrotGroups) >>

MandelbrotOps ==
    << Op("dispatch", "mandelbrot", "image", MandelbrotGroups),
       Op("copy_image_to_buffer", "image", MandelbrotReadback, NoGroups) >>

TriangleOps ==
    << Op("begin_render_pass", "framebuffer", "image", NoGroups),
       Op("draw", "vertex_buffer", "image", NoGroups),
       Op("end_render_pass", "framebuffer", "image", NoGroups),
       Op("copy_image_to_buffer", "image", TriangleReadback, NoGroups) >>

\* new / recorded operations / build, as one run of statements
Recording(l, ops) ==
    << St("cmd_new", l, "", UnwrapErr) >>
    \o [i \in 1 .. Len(ops) |-> St("record", l + i, ops[i], UnwrapErr)]
    \o << St("build", l + Len(ops) + 1, "", UnwrapErr) >>

\* execute / then_signal_fence_and_flush / wait(None)
Submission(l1, l2, l3) ==
    << St("execute", l1, "", UnwrapErr),
       St("flush", l2, "", UnwrapErr),
       St("wait", l3, "", UnwrapErr) >>

Program ==
    << St("create", 21, "instance", "Failed to create new instance."),
       St("enumerate", 27, "", "No device available."),
       St("find_family", 32, "", "Could not find a graphical queue family"),
       St("device", 38, "device", "Failed to create device"),
       St("queue", 41, "queue", UnwrapNone),
       St("alloc", 48, Alloc("source", "iota", CopyLen), UnwrapErr),
       St("alloc", 50, Alloc("dest", "zero", CopyLen), UnwrapErr) >>
    \o Recording(55, CopyOps)
    \o Submission(62, 63, 64)
    \o << St("read", 67, "source", UnwrapErr),
          St("read", 68, "dest", UnwrapErr),
          St("assert_eq", 70, "", AssertFailed),
          St("alloc", 74, Alloc("data_buffer", "iota32", DataLen), UnwrapErr),
          St("create", 77, "cs::Shader", "Failed to create shader module"),
          St("create", 79, "compute_pipeline", "failed to create compute pipeline"),
          St("create", 82, "set", UnwrapErr) >>
    \o Recording(87, MultiplyOps)
    \o Submission(91, 92, 93)
    \o << St("read", 95, "data_buffer", UnwrapErr),
          St("assert_loop", 96, "", AssertFailed),
          St("println", 101, "Success", PrintFailed),
          St("alloc", 103, Alloc("image", "image", ImageDim * ImageDim * 4), UnwrapErr),
          St("alloc", 106, Alloc(MandelbrotReadback, "pixels", ImageDim * ImageDim * 4),
             "Failed to create buffer"),
          St("create", 109, "mandelbrot::Shader", "Could not load mandelbrot shader"),
          St("create", 111, "compute_pipeline_2", UnwrapErr),
          St("create", 114, "set_2", UnwrapErr) >>
    \o Recording(118, MandelbrotOps)
    \o Submission(123, 123, 123)
    \o << St("read", 125, MandelbrotReadback, UnwrapErr),
          St("from_raw", 126, MandelbrotReadback, UnwrapNone),
          St("save", 127, [file |-> "mandelbor.png", view |-> MandelbrotReadback], UnwrapErr),
          St("alloc", 129, Alloc(TriangleReadback, "pixels", ImageDim * ImageDim * 4),
             "Failed to create buffer"),
          St("alloc", 137, Alloc("vertex_buffer", "vertices", 3), UnwrapErr),
          St("create", 140, "render_pass", UnwrapErr),
          St("create", 155, "framebuffer", UnwrapErr),
          St("create", 159, "vertex::Shader", "Failed to create vertex shader"),
          St("create", 160, "frag::Shader", "Failed to create fragment shader"),
          St("create", 162, "pipeline", UnwrapErr) >>
    \o << St("cmd_new", 180, "", UnwrapErr),
          St("record", 182, TriangleOps[1], UnwrapErr),
          St("record", 184, TriangleOps[2], UnwrapErr),
          St("record", 186, TriangleOps[3], UnwrapErr),
          St("record", 188, TriangleOps[4], UnwrapErr),
          St("build", 190, "", UnwrapErr) >>
    \o Submission(193, 194, 195)
    \o << St("read", 197, TriangleReadback, UnwrapErr),
          St("from_raw", 198, TriangleReadback, UnwrapNone),
          St("save", 199, [file |-> "triangle.png", view |-> TriangleReadback], UnwrapErr),
          St("return", 200, "", "") >>

At(k) == status = "running" /\ pc \in DOMAIN Program /\ Program[pc].kind = k

Cur == Program[pc]

----------------------------------------------------------------------------
(* Submissions and the device *)

\* operations of a submission the device has not executed yet
Remaining(s) == (DOMAIN s.cb) \ s.done

Completed(s) == Remaining(s) = {}

\* a submission the device still has work for
Pending == {i \in DOMAIN subs : ~Completed(subs[i])}

\* the operation of a submission the device executes next: in recording order
NextOp(s) == Min(Remaining(s))

\* faulty variants of WaitReturns: a wait that does not block, and a wait
\* that only sees the submission reach the queue
WaitReturnsAtOnce(s) == TRUE
WaitReturnsOnFlush(s) == s.flushed

\* wait(None) returns once the fence of the submission has been signalled,
\* which the device does after the last operation
WaitReturns(s) == s.flushed /\ Completed(s)

\* resources written by the operations of a command buffer
CmdWrites(ops) == UNION {Writes(ops[j]) : j \in DOMAIN ops}

----------------------------------------------------------------------------
(* Device acquisition *)

Family(g, c) == [graphics |-> g, compute |-> c]

\* PhysicalDevice::enumerate(&instance).next(): the first device enumerated,
\* 0 when there is none
FirstDevice(devs) == IF Len(devs) = 0 THEN 0 ELSE 1

\* faulty variant of FindGraphicsFamily: the first family, whatever it supports
FirstFamily(dev) == IF Len(dev) = 0 THEN 0 ELSE 1

\* physical.queue_families().find(|&q| q.supports_graphics()): the first
\* family of the device that supports graphics, 0 when there is none
FindGraphicsFamily(dev) ==
    LET S == {f \in DOMAIN dev : dev[f].graphics}
    IN  IF S = {} THEN 0 ELSE Min(S)

\* the family the queue belongs to: queue.family()
QueueFamily == devices[physical][queue_family]

----------------------------------------------------------------------------
(* Assertions of main *)

\* assert_eq!(&*src_content, &*dst_content)
CopyAssertHolds(m) ==
    /\ m["source"].len = m["dest"].len
    /\ m["source"].data = m["dest"].data

\* for (n, val) in content.iter().enumerate() { assert_eq!(*val, n as u32 * 12) }
MultiplyAssertHolds(m) ==
    \A n \in DOMAIN m["data_buffer"].data :
        m["data_buffer"].data[n] = U32Times(U32(n), Multiplier)

----------------------------------------------------------------------------
(* Steps of the host *)

\* faulty variant of Fail: the error is reported and the run goes on
FailIgnored(msg) ==
    /\ diag' = msg
    /\ pc' = pc + 1
    /\ UNCHANGED <<status, exit_code, devices, physical, queue_family, objs, mem, views, cmd, subs, files, stdout, pass_in>>

\* a failed expect / unwrap / assert_eq: the panic message goes to stderr, the
\* locals (read views among them) are dropped, the process exits with 101
Fail(msg) ==
    /\ status' = "aborted"
    /\ diag' = msg
    /\ exit_code' = PanicExitCode
    /\ views' = {}
    /\ UNCHANGED <<pc, devices, physical, queue_family, objs, mem, cmd, subs, files, stdout, pass_in>>

\* Instance::new, Shader::load, ComputePipeline::new, PersistentDescriptorSet,
\* single_pass_renderpass!, Framebuffer, GraphicsPipeline
Create ==
    /\ At("create")
    /\ \/ /\ objs' = objs \cup {Cur.arg}
          /\ pc' = pc + 1
          /\ UNCHANGED <<status, diag, exit_code, devices, physical, queue_family, mem, views, cmd, subs, files, stdout, pass_in>>
       \/ Fail(Cur.diag)

Enumerate ==
    /\ At("enumerate")
    /\ IF FirstDevice(devices) = 0
       THEN Fail(Cur.diag)
       ELSE /\ physical' = FirstDevice(devices)
            /\ pc' = pc + 1
            /\ UNCHANGED <<status, diag, exit_code, devices, queue_family, objs, mem, views, cmd, subs, files, stdout, pass_in>>

FindQueueFamily ==
    /\ At("find_family")
    /\ IF FindGraphicsFamily(devices[physical]) = 0
       THEN Fail(Cur.diag)
       ELSE /\ queue_family' = FindGraphicsFamily(devices[physical])
            /\ pc' = pc + 1
            /\ UNCHANGED <<status, diag, exit_code, devices, physical, objs, mem, views, cmd, subs, files, stdout, pass_in>>

DeviceNew ==
    /\ At("device")
    /\ \/ /\ objs' = objs \cup {"device"}
          /\ pc' = pc + 1
          /\ UNCHANGED <<status, diag, exit_code, devices, physical, queue_family, mem, views, cmd, subs, files, stdout, pass_in>>
       \/ Fail(Cur.diag)

\* Device::new was asked for one queue of the family, so next() yields it
QueueNext ==
    /\ At("queue")
    /\ objs' = objs \cup {"queue"}
    /\ pc' = pc + 1
    /\ UNCHANGED <<status, diag, exit_code, devices, physical, queue_family, mem, views, cmd, subs, files, stdout, pass_in>>

Allocate ==
    /\ At("alloc")
    /\ \/ /\ mem' = [mem EXCEPT ![Cur.arg.name] = NewResource(Cur.arg.init, Cur.arg.len)]
          /\ pc' = pc + 1
          /\ UNCHANGED <<status, diag, exit_code, devices, physical, queue_family, objs, views, cmd, subs, files, stdout, pass_in>>
       \/ Fail(Cur.diag)

CmdNew ==
    /\ At("cmd_new")
    /\ \/ /\ cmd' = [state |-> "recording", ops |-> <<>>]
          /\ pc' = pc + 1
          /\ UNCHANGED <<status, diag, exit_code, devices, physical, queue_family, objs, mem, views, subs, files, stdout, pass_in>>
       \/ Fail(Cur.diag)

\* copy_buffer / dispatch / begin_render_pass / draw / end_render_pass /
\* copy_image_to_buffer: the builder refuses an operation the queue family
\* does not support, otherwise appends it
Record ==
    /\ At("record")
    /\ IF \/ (NeedsCompute(Cur.arg) /\ ~QueueFamily.compute)
          \/ (NeedsGraphics(Cur.arg) /\ ~QueueFamily.graphics)
       THEN Fail(Cur.diag)
       ELSE \/ /\ cmd' = [cmd EXCEPT !.ops = Append(@, Cur.arg)]
               /\ pc' = pc + 1
               /\ UNCHANGED <<status, diag, exit_code, devices, physical, queue_family, objs, mem, views, subs, files, stdout, pass_in>>
            \/ Fail(Cur.diag)

Build ==
    /\ At("build")
    /\ \/ /\ cmd' = [cmd EXCEPT !.state = "built"]
          /\ pc' = pc + 1
          /\ UNCHANGED <<status, diag, exit_code, devices, physical, queue_family, objs, mem, views, subs, files, stdout, pass_in>>
       \/ Fail(Cur.diag)

\* command_buffer.execute(queue.clone()): the command buffer moves into the
\* future that will be submitted
Execute ==
    /\ At("execute")
    /\ \/ /\ subs' = Append(subs, [cb |-> cmd.ops, done |-> {}, flushed |-> FALSE, waited |-> FALSE])
          /\ cmd' = [state |-> "none", ops |-> <<>>]
          /\ pc' = pc + 1
          /\ UNCHANGED <<status, diag, exit_code, devices, physical, queue_family, objs, mem, views, files, stdout, pass_in>>
       \/ Fail(Cur.diag)

\* then_signal_fence_and_flush(): the submission reaches the queue
Flush ==
    /\ At("flush")
    /\ \/ /\ subs' = [subs EXCEPT ![Len(subs)].flushed = TRUE]
          /\ pc' = pc + 1
          /\ UNCHANGED <<status, diag, exit_code, devices, physical, queue_family, objs, mem, views, cmd, files, stdout, pass_in>>
       \/ Fail(Cur.diag)

\* wait(None): blocks until the fence is signalled
Wait ==
    /\ At("wait")
    /\ \/ /\ WaitReturns(subs[Len(subs)])
          /\ subs' = [subs EXCEPT ![Len(subs)].waited = TRUE]
          /\ pc' = pc + 1
          /\ UNCHANGED <<status, diag, exit_code, devices, physical, queue_family, objs, mem, views, cmd, files, stdout, pass_in>>
       \/ Fail(Cur.diag)

\* buffer.read(): the view is held until the end of main
Read ==
    /\ At("read")
    /\ \/ /\ views' = views \cup {Cur.arg}
          /\ pc' = pc + 1
          /\ UNCHANGED <<status, diag, exit_code, devices, physical, queue_family, objs, mem, cmd, subs, files, stdout, pass_in>>
       \/ Fail(Cur.diag)

AssertEq ==
    /\ At("assert_eq")
    /\ IF CopyAssertHolds(mem)
       THEN pc' = pc + 1 /\ UNCHANGED <<status, diag, exit_code, devices, physical, queue_family, objs, mem, views, cmd, subs, files, stdout, pass_in>>
       ELSE Fail(Cur.diag)

AssertLoop ==
    /\ At("assert_loop")
    /\ IF MultiplyAssertHolds(mem)
       THEN pc' = pc + 1 /\ UNCHANGED <<status, diag, exit_code, devices, physical, queue_family, objs, mem, views, cmd, subs, files, stdout, pass_in>>
       ELSE Fail(Cur.diag)

\* println!("Success"): panics when stdout cannot be written
PrintSuccess ==
    /\ At("println")
    /\ \/ /\ stdout' = Append(stdout, Cur.arg)
          /\ pc' = pc + 1
          /\ UNCHANGED <<status, diag, exit_code, devices, physical, queue_family, objs, mem, views, cmd, subs, files, pass_in>>
       \/ Fail(Cur.diag)

\* ImageBuffer::from_raw(512, 512, &buffer_content[..]): None when the slice
\* is shorter than 512 * 512 * 4
FromRaw ==
    /\ At("from_raw")
    /\ IF mem[Cur.arg].len >= ImageDim * ImageDim * 4
       THEN pc' = pc + 1 /\ UNCHANGED <<status, diag, exit_code, devices, physical, queue_family, objs, mem, views, cmd, subs, files, stdout, pass_in>>
       ELSE Fail(Cur.diag)

\* faulty variant of Saved: the first readback buffer is encoded again
SavedFromFirst(name, view) ==
    [name |-> name, width |-> ImageDim, height |-> ImageDim,
     pixels |-> mem[MandelbrotReadback].data]

\* the file an image save writes: the bytes seen through the read view
Saved(name, view) ==
    [name |-> name, width |-> ImageDim, height |-> ImageDim,
     pixels |-> mem[view].data]

Save ==
    /\ At("save")
    /\ \/ /\ files' = Append(files, Saved(Cur.arg.file, Cur.arg.view))
          /\ pc' = pc + 1
          /\ UNCHANGED <<status, diag, exit_code, devices, physical, queue_family, objs, mem, views, cmd, subs, stdout, pass_in>>
       \/ Fail(Cur.diag)

\* falling off the end of main: locals dropped, exit code 0
Return ==
    /\ At("return")
    /\ status' = "done"
    /\ exit_code' = 0
    /\ views' = {}
    /\ pc' = pc + 1
    /\ UNCHANGED <<diag, devices, physical, queue_family, objs, mem, cmd, subs, files, stdout, pass_in>>

\* the device executes the next operation of a submission on its queue
DeviceStep ==
    \E i \in Pending :
        /\ subs[i].flushed
        /\ \E e \in Effects(subs[i].cb[NextOp(subs[i])], mem) :
              mem' = ExecOpWith(subs[i].cb[NextOp(subs[i])], mem, e)
        /\ subs' = [subs EXCEPT ![i].done = @ \cup {NextOp(subs[i])}]
        /\ UNCHANGED <<pc, status, diag, exit_code, devices, physical, queue_family, objs, views, cmd, files, stdout, pass_in>>

----------------------------------------------------------------------------
(* Runs of main *)

NoMem == [n \in Names |-> Absent]

\* what the driver may enumerate
HostConfigs ==
    { <<>>,
      << <<Family(TRUE, TRUE)>> >>,
      << <<Family(TRUE, FALSE)>> >>,
      << <<Family(FALSE, TRUE), Family(TRUE, TRUE)>> >>,
      << <<Family(FALSE, TRUE)>>, <<Family(TRUE, TRUE)>> >> }

InitWith(devs) ==
    /\ pc = 1
    /\ status = "running"
    /\ diag = ""
    /\ exit_code = -1
    /\ devices = devs
    /\ physical = 0
    /\ queue_family = 0
    /\ objs = {}
    /\ mem = NoMem
    /\ views = {}
    /\ cmd = [state |-> "none", ops |-> <<>>]
    /\ subs = <<>>
    /\ files = <<>>
    /\ stdout = <<>>
    /\ pass_in = [done |-> {"main"}, dest0 |-> <<>>, data0 |-> "iota32", effect |-> NoEffect]

Init == \E devs \in HostConfigs : InitWith(devs)

Next ==
    \/ Create \/ Enumerate \/ FindQueueFamily \/ DeviceNew \/ QueueNext
    \/ Allocate \/ CmdNew \/ Record \/ Build \/ Execute \/ Flush \/ Wait
    \/ Read \/ AssertEq \/ AssertLoop \/ PrintSuccess \/ FromRaw \/ Save
    \/ Return \/ DeviceStep

Spec == Init /\ [][Next]_vars

----------------------------------------------------------------------------
(* Device acquisition alone, over every enumeration within the bounds *)

FamilyKinds == {Family(TRUE, TRUE), Family(TRUE, FALSE), Family(FALSE, TRUE)}

DeviceSet == UNION {[1 .. k -> FamilyKinds] : k \in 0 .. MaxFamilies}

DeviceLists == UNION {[1 .. n -> DeviceSet] : n \in 0 .. MaxDevices}

InitAcquire == \E devs \in DeviceLists : InitWith(devs)

NextAcquire ==
    \/ Create \/ Enumerate \/ FindQueueFamily \/ DeviceNew \/ QueueNext

SpecAcquire == InitAcquire /\ [][NextAcquire]_vars

----------------------------------------------------------------------------
(* The copy and the multiply pass of main alone, over buffers of every      *)
(* length within the bounds and the configured lengths                      *)

CopyLens == (0 .. MaxLen) \cup {CopyLen}

\* lengths of the data buffer: the short ones, the configured one, and one
\* element more than the dispatch of line 88 reaches
DataLens == (0 .. MaxLen) \cup {DataLen, DataLen + 1}

\* what the data buffer holds before the pass: element i = i as in line 74, or
\* values at the top of the u32 range
DataFills == {"iota32", "top32"}

\* bytes the destination may hold before the copy
DestFills == {0, 1, 255}

\* contents of a destination of n bytes: anything for a short one, a uniform
\* fill for a long one
DestContents(n) ==
    IF n <= MaxLen
    THEN [SampleIdx(n) -> DestFills]
    ELSE {[i \in SampleIdx(n) |-> f] : f \in DestFills}

InitPass ==
    \E n \in CopyLens, m \in DataLens, f \in DataFills :
      \E d \in DestContents(n) :
        /\ pc = 0
        /\ status = "pass"
        /\ diag = ""
        /\ exit_code = -1
        /\ devices = <<>>
        /\ physical = 0
        /\ queue_family = 0
        /\ objs = {}
        /\ mem = [NoMem EXCEPT !["source"] = IotaBuffer(n),
                               !["dest"] = [ZeroBuffer(n) EXCEPT !.data = d],
                               !["data_buffer"] = NewResource(f, m)]
        /\ views = {}
        /\ cmd = [state |-> "none", ops |-> <<>>]
        /\ subs = <<>>
        /\ files = <<>>
        /\ stdout = <<>>
        /\ pass_in = [done |-> {}, dest0 |-> d, data0 |-> f, effect |-> NoEffect]

\* the device executes the command buffer of lines 55-57
PassCopy ==
    /\ status = "pass"
    /\ "copy" \notin pass_in.done
    /\ \E e \in Effects(CopyOps[1], mem) : mem' = ExecOpWith(CopyOps[1], mem, e)
    /\ pass_in' = [pass_in EXCEPT !.done = @ \cup {"copy"}]
    /\ UNCHANGED <<pc, status, diag, exit_code, devices, physical, queue_family, objs, views, cmd, subs, files, stdout>>

\* the device executes the command buffer of lines 87-89; the effect of its
\* accesses past the end is kept for the properties
PassMultiply ==
    /\ status = "pass"
    /\ "multiply" \notin pass_in.done
    /\ \E e \in Effects(MultiplyOps[1], mem) :
          /\ mem' = ExecOpWith(MultiplyOps[1], mem, e)
          /\ pass_in' = [pass_in EXCEPT !.done = @ \cup {"multiply"}, !.effect = e]
    /\ UNCHANGED <<pc, status, diag, exit_code, devices, physical, queue_family, objs, views, cmd, subs, files, stdout>>

NextPass == PassCopy \/ PassMultiply

SpecPass == InitPass /\ [][NextPass]_vars

----------------------------------------------------------------------------
(* Properties *)

\* every operation sequence main has recorded or submitted
Recorded == {cmd.ops} \cup {subs[i].cb : i \in DOMAIN subs}

\* the pixels a finished triangle pass leaves in the attachment: the
\* vertices (-0.5,-0.5), (0.0,0.5), (0.5,-0.25) land on the pixel positions
\* (128,128), (256,384), (384,192); a pixel is covered when its centre lies
\* on the inner side of all three edges
TrianglePixel(p) ==
    LET x2 == 2 * p[1] + 1
        y2 == 2 * p[2] + 1
    IN  IF /\ 2 * (x2 - 256) - (y2 - 256) > 0
           /\ 3 * (x2 - 512) + 2 * (y2 - 768) < 0
           /\ (x2 - 256) - 4 * (y2 - 256) < 0
        THEN ShadedColour ELSE ClearColour

\* C1: wait-before-read. Whenever the host holds a read view of a buffer,
\* every submitted command buffer that writes that buffer (the readback
\* copies write it from the image) has been executed to its end by the
\* device and its fence wait has returned; nothing that writes a viewed
\* buffer is pending.
C1_WaitBeforeRead ==
    \A b \in views : \A i \in DOMAIN subs :
        b \in CmdWrites(subs[i].cb) => subs[i].waited /\ Completed(subs[i])

\* C1 witness: the host holds the view of the triangle readback buffer (and
\* of every earlier one) after the fourth submission.
C1_Witness ==
    /\ status = "running"
    /\ views = {"source", "dest", "data_buffer", MandelbrotReadback, TriangleReadback}
    /\ Len(subs) = 4

\* C2: at most one submission is pending or unwaited at any time, and while
\* one is, a running host is at the flush or the wait of that submission and
\* nowhere else.
C2_OnePending ==
    /\ Cardinality(Pending) <= 1
    /\ Cardinality({i \in DOMAIN subs : ~subs[i].waited}) <= 1
    /\ \A i \in DOMAIN subs :
         (~subs[i].waited \/ ~Completed(subs[i])) /\ status = "running"
            => i = Len(subs) /\ Cur.kind \in {"flush", "wait"}

\* C2 witness: the fourth submission is half executed while the host waits.
C2_Witness ==
    /\ Len(subs) = 4
    /\ At("wait")
    /\ subs[4].done = {1, 2}

\* C3 as stated: whenever some enumerated device has a queue family of the
\* needed class (graphics and compute), acquisition does not fail for want of
\* a device or family, the device opened is the first one with such a family
\* and the queue's family is of that class.
C3_FirstSuitableDevice ==
    LET suitable == {i \in DOMAIN devices :
                       \E f \in DOMAIN devices[i] :
                          devices[i][f].graphics /\ devices[i][f].compute}
    IN  suitable # {} =>
          /\ diag \notin {"No device available.", "Could not find a graphical queue family"}
          /\ "queue" \in objs =>
                /\ physical = Min(suitable)
                /\ QueueFamily.graphics /\ QueueFamily.compute

\* C3 amended: the device opened is the first one enumerated, whatever its
\* families; the queue's family is the first family of that device that
\* supports graphics (compute is not looked at); acquisition fails for want
\* of a device exactly when nothing is enumerated and for want of a family
\* exactly when the first device has no graphics family, also when a later
\* device has one.
C3_FirstDeviceFirstGraphicsFamily ==
    /\ physical # 0 => physical = 1
    /\ queue_family # 0 =>
          /\ devices[1][queue_family].graphics
          /\ \A f \in 1 .. (queue_family - 1) : ~devices[1][f].graphics
    /\ "queue" \in objs => physical = 1 /\ queue_family # 0
    /\ diag = "No device available." <=> (pc = 2 /\ status = "aborted")
    /\ pc = 2 /\ status = "aborted" => devices = <<>>
    /\ pc > 2 => devices # <<>>
    /\ diag = "Could not find a graphical queue family" <=> (pc = 3 /\ status = "aborted")
    /\ pc = 3 /\ status = "aborted" => \A f \in DOMAIN devices[1] : ~devices[1][f].graphics
    /\ pc > 3 => \E f \in DOMAIN devices[1] : devices[1][f].graphics

\* C3 witness: two devices enumerated, the queue obtained from the second
\* family of the first.
C3_Witness ==
    /\ "queue" \in objs
    /\ Len(devices) = 2
    /\ queue_family = 2

\* C4: once the copy has been executed, dest equals source element for
\* element, source is what from_iter put there, and the assert_eq of line 70
\* holds, whatever the length and whatever dest held before.
C4_CopyYieldsSource ==
    "copy" \in pass_in.done =>
        /\ mem["dest"].len = mem["source"].len
        /\ \A i \in DOMAIN mem["dest"].data :
              /\ i \in DOMAIN mem["source"].data
              /\ mem["dest"].data[i] = i
              /\ mem["source"].data[i] = i
        /\ CopyAssertHolds(mem)

\* C4 witness: a copy over a destination that differed from the source in
\* its last element.
C4_Witness ==
    /\ "copy" \in pass_in.done
    /\ mem["source"].len = MaxLen
    /\ pass_in.dest0[MaxLen - 1] # MaxLen - 1

C6_ThreeFiles ==
    status = "done" => Len(files) = 3

\* C6 amended: a completed run has written exactly two image files,
\* mandelbor.png and then triangle.png, both 512x512; the first holds the
\* Mandelbrot render and the second the triangle render, so each was written
\* after its readback buffer had been filled; no run writes more.
C6_TwoFiles ==
    /\ Len(files) <= 2
    /\ status = "done" => Len(files) = 2
    /\ \A k \in DOMAIN files :
          /\ files[k].width = 512 /\ files[k].height = 512
          /\ k = 1 => /\ files[k].name = "mandelbor.png"
                      /\ \A p \in PixIdx : files[k].pixels[p] = MandelbrotColour(p[1], p[2])
          /\ k = 2 => /\ files[k].name = "triangle.png"
                      /\ \A p \in PixIdx : files[k].pixels[p] = TrianglePixel(p)

\* C6 witness: main has returned with both files written.
C6_Witness ==
    /\ status = "done"
    /\ exit_code = 0
    /\ Len(files) = 2

\* host-side state: everything but the memory and the device's progress
HostState == <<pc, status, diag, exit_code, physical, queue_family, objs, views,
               cmd, files, stdout, Len(subs),
               [i \in DOMAIN subs |-> <<subs[i].flushed, subs[i].waited>>]>>

\* C7: a diagnostic is printed only by a run that aborts, with a non-zero
\* exit code, at the step that failed; an aborted run performs no later host
\* step (nothing recorded, submitted, read or saved); the no-device
\* diagnostic comes before any device, buffer or submission exists.
C7_AbortAtFailure ==
    /\ [](diag # "" => status = "aborted" /\ exit_code = 101 /\ diag = Cur.diag)
    /\ [](status = "aborted" => diag # "" /\ views = {})
    /\ [](diag = "No device available."
            => objs = {"instance"} /\ mem = NoMem /\ subs = <<>> /\ files = <<>>)
    /\ [][status = "aborted" => HostState' = HostState]_vars

\* C7 witness: the run aborted at the first save, after three submissions.
C7_Witness ==
    /\ status = "aborted"
    /\ Cur.kind = "save"
    /\ Len(subs) = 3
    /\ files = <<>>

\* C8: once the device has finished the triangle pass, the readback buffer
\* holds the shaded colour at every pixel inside the triangle and the clear
\* colour at every other pixel, and no pixel equals what the Mandelbrot pass
\* left there.
C8_TriangleOverClear ==
    Len(subs) = 4 /\ Completed(subs[4]) =>
        \A p \in PixIdx :
            /\ mem[TriangleReadback].data[p] = TrianglePixel(p)
            /\ mem[TriangleReadback].data[p] # MandelbrotColour(p[1], p[2])
            /\ mem[TriangleReadback].data[p] # mem[MandelbrotReadback].data[p]

\* C8 witness: the pass is finished, with a tracked pixel inside and a
\* tracked pixel outside the triangle.
C8_Witness ==
    /\ Len(subs) = 4 /\ Completed(subs[4])
    /\ \E p \in PixIdx : mem[TriangleReadback].data[p] = ShadedColour
    /\ \E p \in PixIdx : mem[TriangleReadback].data[p] = ClearColour
    /\ mem[TriangleReadback].data[<<256, 256>>] = ShadedColour
    /\ mem[TriangleReadback].data[<<0, 0>>] = ClearColour

\* C9: the device has executed a prefix of every submission (recording
\* order), every draw recorded lies between a begin_render_pass and its
\* end_render_pass, every copy_image_to_buffer lies outside a render pass and
\* after an operation of the same command buffer that writes the image, and
\* no readback buffer ever receives a pixel the image had not been given.
C9_RecordingOrder ==
    /\ \A i \in DOMAIN subs : subs[i].done = 1 .. Cardinality(subs[i].done)
    /\ \A ops \in Recorded : \A j \in DOMAIN ops :
          LET open == \E b \in 1 .. (j - 1) :
                         /\ ops[b].op = "begin_render_pass"
                         /\ \A e \in (b + 1) .. (j - 1) : ops[e].op # "end_render_pass"
          IN  /\ ops[j].op = "draw" => open
              /\ ops[j].op = "end_render_pass" => open
              /\ ops[j].op = "copy_image_to_buffer" =>
                    /\ ~open
                    /\ \E w \in 1 .. (j - 1) :
                          /\ ops[w].op \in {"dispatch", "end_render_pass"}
                          /\ ops[w].b = ops[j].a
    /\ \A b \in {MandelbrotReadback, TriangleReadback} :
          mem[b].kind = "buffer" => \A p \in PixIdx : mem[b].data[p] # UndefColour

\* C9 witness: the device is inside the render pass of the fourth
\* submission, the draw executed and the end not yet.
C9_Witness ==
    /\ Len(subs) = 4
    /\ subs[4].done = {1, 2}
    /\ subs[4].cb[2].op = "draw"

\* C10: a command buffer about to be submitted, or submitted and not yet
\* waited for, writes no buffer whose read view the host holds; the triangle
\* pass writes a buffer other than the Mandelbrot readback buffer.
C10_NoWriteUnderView ==
    /\ At("execute") => CmdWrites(cmd.ops) \cap views = {}
    /\ \A i \in DOMAIN subs :
          ~subs[i].waited /\ status = "running" => CmdWrites(subs[i].cb) \cap views = {}
    /\ Len(subs) = 4 => MandelbrotReadback \notin CmdWrites(subs[4].cb)

\* C10 witness: the triangle command buffer is about to be submitted while
\* the view of the Mandelbrot readback buffer is held.
C10_Witness ==
    /\ At("execute")
    /\ MandelbrotReadback \in views
    /\ "buf_2" \in CmdWrites(cmd.ops)
====
